---- MODULE Spec2Model ----
(***************************************************************************)
(* A model of python/singleton.py (SingletonMeta, at the end) and of       *)
(* python/lazily-evaluated-env-vars.py: the lazy setting                   *)
(* proxies Setting, IntSetting, FloatSetting and ListSetting over the      *)
(* process environment (os.environ).                                       *)
(*                                                                         *)
(* Text is a sequence of one-character strings.  A Python value is a       *)
(* record of one shape (Val) so that values of different types can be      *)
(* compared.  Lists live in a heap and are held by reference, as in        *)
(* Python, so aliasing and replacement of the cached list are visible.     *)
(***************************************************************************)
EXTENDS Integers, Sequences, FiniteSets, TLC

VARIABLES env, proxies, heap, last, threads, runs,
          instances, lock, calls, made, got

vars == <<env, proxies, heap, last, threads, runs,
          instances, lock, calls, made, got>>

\* the state of the lazy settings, and the state of the singleton metaclass
settingVars == <<env, proxies, heap, last, threads, runs>>
singletonVars == <<instances, lock, calls, made, got>>

----------------------------------------------------------------------------
(* Bounds and input pools                                                  *)

\* the longest list an insertion or a slice assignment may build
MaxListLen == 2
\* the longest raw text drawn for the split/trim function
MaxLen == 3

Keys == {"A", "B"}
ProxyIds == {1, 2}
ThreadIds == {1, 2}

\* texts the environment may hold
TextPool == { <<"7">>, <<" ", "4">>, <<"2", ".", "5">>, <<"x", " ", "y">> }
\* texts a caller may supply as fallback
DefaultPool == { <<"3">>, <<"n", "o">> }
\* separators and split counts a caller may configure for a list proxy
Seps == { <<" ">>, <<".">> }
MaxSplits == { -1, 1 }
Callables == { "None", "upper" }

----------------------------------------------------------------------------
(* Python values                                                           *)

Val(t, s, n, d, ref) == [t |-> t, s |-> s, n |-> n, d |-> d, ref |-> ref]
StrVal(s)      == Val("str", s, 0, 1, 0)
IntVal(n)      == Val("int", <<>>, n, 1, 0)
FloatVal(n, d) == Val("float", <<>>, n, d, 0)
ListVal(ref)   == Val("list", <<>>, 0, 1, ref)
NoneVal        == Val("NoneType", <<>>, 0, 1, 0)
NoVal          == Val("-", <<>>, 0, 1, 0)

\* MISSING: Missing = object()
MISSING == Val("MISSING", <<>>, 0, 1, 0)

\* fallbacks that pass __post_init__, and fallbacks that do not
GoodFallbacks == {MISSING} \cup { StrVal(s) : s \in DefaultPool }
BadFallbacks == { IntVal(0), NoneVal }

----------------------------------------------------------------------------
(* Text functions of the Python runtime the proxies call                   *)

IsSpace(c) == c \in {" ", "\t", "\n"}
IsDigit(c) == c \in {"0", "1", "2", "3", "4", "5", "6", "7", "8", "9"}

DigitVal(c) ==
  CASE c = "0" -> 0 [] c = "1" -> 1 [] c = "2" -> 2 [] c = "3" -> 3
    [] c = "4" -> 4 [] c = "5" -> 5 [] c = "6" -> 6 [] c = "7" -> 7
    [] c = "8" -> 8 [] c = "9" -> 9

Pow10(k) == IF k = 0 THEN 1 ELSE IF k = 1 THEN 10 ELSE IF k = 2 THEN 100 ELSE 1000

RECURSIVE LStrip(_)
LStrip(s) ==
  IF s # <<>> /\ IsSpace(Head(s)) THEN LStrip(Tail(s)) ELSE s

RECURSIVE RStrip(_)
RStrip(s) ==
  IF s # <<>> /\ IsSpace(s[Len(s)]) THEN RStrip(SubSeq(s, 1, Len(s) - 1)) ELSE s

\* str.strip()
Strip(s) == RStrip(LStrip(s))

\* str.upper(), letter by letter
UpperChar(c) ==
  CASE c = "a" -> "A" [] c = "b" -> "B" [] c = "x" -> "X" [] c = "y" -> "Y"
    [] OTHER -> c

Upper(s) == [i \in 1..Len(s) |-> UpperChar(s[i])]

AllDigits(s) == s # <<>> /\ \A i \in 1..Len(s) : IsDigit(s[i])

RECURSIVE DigitsValue(_)
DigitsValue(s) ==
  IF s = <<>> THEN 0
  ELSE 10 * DigitsValue(SubSeq(s, 1, Len(s) - 1)) + DigitVal(s[Len(s)])

HasSign(s) == s # <<>> /\ Head(s) \in {"+", "-"}
Unsigned(s) == IF HasSign(s) THEN Tail(s) ELSE s
SignOf(s) == IF s # <<>> /\ Head(s) = "-" THEN -1 ELSE 1

\* int(text): surrounding whitespace, an optional sign, decimal digits
IsIntLiteral(s) == AllDigits(Unsigned(Strip(s)))
IntOf(s) == SignOf(Strip(s)) * DigitsValue(Unsigned(Strip(s)))

\* the position of the decimal point, or 0
DotAt(s) ==
  IF \E i \in 1..Len(s) : s[i] = "."
  THEN CHOOSE i \in 1..Len(s) : s[i] = "." /\ \A j \in 1..(i - 1) : s[j] # "."
  ELSE 0

IntPart(s) == IF DotAt(s) = 0 THEN s ELSE SubSeq(s, 1, DotAt(s) - 1)
FracPart(s) == IF DotAt(s) = 0 THEN <<>> ELSE SubSeq(s, DotAt(s) + 1, Len(s))

\* float(text): whitespace, sign, digits with at most one decimal point and
\* a digit on at least one side of it
IsFloatLiteral(s) ==
  LET u == Unsigned(Strip(s))
  IN  /\ IntPart(u) \o FracPart(u) # <<>>
      /\ \A i \in 1..Len(IntPart(u)) : IsDigit(IntPart(u)[i])
      /\ \A i \in 1..Len(FracPart(u)) : IsDigit(FracPart(u)[i])

\* the real number num/den that float(text) denotes
FloatNum(s) ==
  LET u == Unsigned(Strip(s))
  IN  SignOf(Strip(s)) * DigitsValue(IntPart(u) \o FracPart(u))
FloatDen(s) == Pow10(Len(FracPart(Unsigned(Strip(s)))))

\* str.find(sep) + 1: the first position where sep occurs in s, or 0
Find(s, sep) ==
  LET hits == { i \in 1..(Len(s) - Len(sep) + 1) :
                  SubSeq(s, i, i + Len(sep) - 1) = sep }
  IN  IF hits = {} THEN 0 ELSE CHOOSE i \in hits : \A j \in hits : i <= j

\* str.split(sep, maxsplit) for a non-empty sep: cut at the leftmost
\* occurrence, at most maxsplit times (a negative count never runs out)
RECURSIVE Split(_, _, _)
Split(s, sep, maxsplit) ==
  IF maxsplit = 0 \/ Find(s, sep) = 0 THEN << s >>
  ELSE << SubSeq(s, 1, Find(s, sep) - 1) >>
       \o Split(SubSeq(s, Find(s, sep) + Len(sep), Len(s)), sep,
                IF maxsplit < 0 THEN maxsplit ELSE maxsplit - 1)

----------------------------------------------------------------------------
(* The environment: a dict from names to text                              *)

\* os.environ[name] = text
EnvSet(e, k, t) == [x \in (DOMAIN e) \cup {k} |-> IF x = k THEN t ELSE e[x]]
\* del os.environ[name]
EnvDel(e, k) == [x \in (DOMAIN e) \ {k} |-> e[x]]
\* a lookup that prefers a supplied default to the store
EnvGetDefaultFirst(e, k, dflt) ==
  IF dflt.t = "str" THEN dflt ELSE IF k \in DOMAIN e THEN StrVal(e[k]) ELSE dflt

\* os.environ.get(name, default)
EnvGet(e, k, dflt) == IF k \in DOMAIN e THEN StrVal(e[k]) ELSE dflt

EmptyEnv == [x \in {} |-> <<>>]

----------------------------------------------------------------------------
(* Proxy instances                                                         *)

Classes == {"Setting", "IntSetting", "FloatSetting", "ListSetting"}
NumericClasses == {"IntSetting", "FloatSetting"}

\* the dataclass fields of an instance, and its __dict__ slot for `value`;
\* `failed` is history: an evaluation of this instance has raised
Proxy(cls, name, default, item_callable, sep, max_split) ==
  [cls |-> cls, name |-> name, default |-> default,
   item_callable |-> item_callable, sep |-> sep, max_split |-> max_split,
   resolved |-> FALSE, value |-> NoVal, failed |-> FALSE]

NoProxy == Proxy("none", "", MISSING, "None", << " " >>, -1)

\* a __post_init__ without the type check
PostInitAcceptsAll(default) == TRUE

\* __post_init__: the fallback is text or the MISSING sentinel
PostInitAccepts(default) == default.t = "str" \/ default = MISSING

----------------------------------------------------------------------------
(* Results of one evaluation                                               *)

NoMsg == [key |-> "", text |-> <<>>]

Return(v, raw, reads, h) ==
  [outcome |-> "ok", val |-> v, raw |-> raw, reads |-> reads, msg |-> NoMsg,
   heap |-> h]

Raise(kind, msg, raw, reads, h) ==
  [outcome |-> kind, val |-> NoVal, raw |-> raw, reads |-> reads, msg |-> msg,
   heap |-> h]

\* item_callable(v)
ApplyCallable(f, v) == IF f = "upper" THEN Upper(v) ELSE v

\* Setting.value
SettingValue(p, e, h) ==
  IF p.default = MISSING
  THEN IF p.name \in DOMAIN e
       THEN Return(StrVal(e[p.name]), StrVal(e[p.name]), 1, h)
       ELSE Raise("KeyError", [key |-> p.name, text |-> <<>>], NoVal, 1, h)
  ELSE Return(EnvGet(e, p.name, p.default), EnvGet(e, p.name, p.default), 1, h)

\* int(value) whose ValueError is not re-raised with the key in its message
IntConvertBare(p, value, reads, h) ==
  IF value.t # "str" THEN Raise("TypeError", NoMsg, value, reads, h)
  ELSE IF IsIntLiteral(value.s)
       THEN Return(IntVal(IntOf(value.s)), value, reads, h)
       ELSE Raise("ValueError", [key |-> "", text |-> value.s], value, reads, h)

\* int(value), and the ValueError the except clause re-raises
IntConvert(p, value, reads, h) ==
  IF value.t # "str" THEN Raise("TypeError", NoMsg, value, reads, h)
  ELSE IF IsIntLiteral(value.s)
       THEN Return(IntVal(IntOf(value.s)), value, reads, h)
       ELSE Raise("ValueError", [key |-> p.name, text |-> value.s], value, reads, h)

\* float(value), and the ValueError the except clause re-raises
FloatConvert(p, value, reads, h) ==
  IF value.t # "str" THEN Raise("TypeError", NoMsg, value, reads, h)
  ELSE IF IsFloatLiteral(value.s)
       THEN Return(FloatVal(FloatNum(value.s), FloatDen(value.s)), value, reads, h)
       ELSE Raise("ValueError", [key |-> p.name, text |-> value.s], value, reads, h)

\* the number of times IntSetting.value and FloatSetting.value read
\* os.environ: the guarded read, and the read that overwrites it
NumericReads(p) == IF p.default = MISSING THEN 2 ELSE 1

\* IntSetting.value
IntSettingValue(p, e, h) ==
  IF p.default = MISSING /\ p.name \notin DOMAIN e
  THEN Raise("KeyError", [key |-> p.name, text |-> <<>>], NoVal, 1, h)
  ELSE IntConvert(p, EnvGet(e, p.name, p.default), NumericReads(p), h)

\* FloatSetting.value
FloatSettingValue(p, e, h) ==
  IF p.default = MISSING /\ p.name \notin DOMAIN e
  THEN Raise("KeyError", [key |-> p.name, text |-> <<>>], NoVal, 1, h)
  ELSE FloatConvert(p, EnvGet(e, p.name, p.default), NumericReads(p), h)

\* a parse that forgets to strip the pieces
ParseListNoStrip(p, unparsed) ==
  LET pieces == Split(unparsed, p.sep, p.max_split)
  IN  [i \in 1..Len(pieces) |-> ApplyCallable(p.item_callable, pieces[i])]

\* the list ListSetting.value builds from the unparsed text
ParseList(p, unparsed) ==
  LET pieces == Split(unparsed, p.sep, p.max_split)
      list_ver == [i \in 1..Len(pieces) |-> Strip(pieces[i])]
  IN  IF p.item_callable = "None" THEN list_ver
      ELSE [i \in 1..Len(list_ver) |-> ApplyCallable(p.item_callable, list_ver[i])]

\* ListSetting.value: the new list is a fresh object of the heap
ListSettingValue(p, e, h) ==
  IF p.default = MISSING /\ p.name \notin DOMAIN e
  THEN Raise("KeyError", [key |-> p.name, text |-> <<>>], NoVal, 1, h)
  ELSE LET unparsed == EnvGet(e, p.name, p.default)
       IN  IF p.sep = <<>>
           THEN Raise("ValueError", NoMsg, unparsed, 1, h)
           ELSE Return(ListVal(Len(h) + 1), unparsed, 1,
                       Append(h, ParseList(p, unparsed.s)))

\* the function under @cached_property
ComputeValue(p, e, h) ==
  CASE p.cls = "Setting" -> SettingValue(p, e, h)
    [] p.cls = "IntSetting" -> IntSettingValue(p, e, h)
    [] p.cls = "FloatSetting" -> FloatSettingValue(p, e, h)
    [] p.cls = "ListSetting" -> ListSettingValue(p, e, h)

\* a property that is evaluated again at every access
GetValueUncached(p, e, h) == ComputeValue(p, e, h)

\* self.value: the instance's __dict__ entry if there is one, else the
\* function's result
GetValue(p, e, h) ==
  IF p.resolved THEN Return(p.value, NoVal, 0, h) ELSE ComputeValue(p, e, h)

\* a cache that also keeps the outcome of a failed evaluation
CacheAlways(p, r) == [p EXCEPT !.resolved = TRUE, !.value = r.val]

\* cached_property stores a result that was returned, never an exception
Cache(p, r) ==
  IF r.outcome = "ok" THEN [p EXCEPT !.resolved = TRUE, !.value = r.val]
  ELSE [p EXCEPT !.failed = TRUE]

----------------------------------------------------------------------------
(* What the caller of the last operation saw                               *)

\* op, p: the operation and the instance it was called on; first: the
\* instance was unresolved before; q, arg, a, b, items: the operands;
\* pre: the cached list the operation started from; outcome, val, res, msg:
\* what came back; raw: the text resolution used; reads: how many times the
\* operation read os.environ
Nothing == [op |-> "none", p |-> 0, first |-> FALSE, outcome |-> "ok",
            val |-> NoVal, raw |-> NoVal, msg |-> NoMsg, reads |-> 0,
            q |-> 0, arg |-> NoVal, res |-> FALSE,
            pre |-> <<>>, a |-> 0, b |-> 0, items |-> <<>>]

Observed(op, i, p, r) ==
  [Nothing EXCEPT !.op = op, !.p = i, !.first = ~p.resolved,
                  !.outcome = r.outcome, !.val = r.val, !.raw = r.raw,
                  !.msg = r.msg, !.reads = r.reads]

----------------------------------------------------------------------------
(* SingletonMeta: classes, the instance table and the shared lock          *)

\* how often the constructors may raise in one behaviour
MaxRaises == 2

\* classes whose metaclass is SingletonMeta; the __init__ of A calls B()
SingletonClasses == {"A", "B", "C"}
Initializer(c) == IF c = "A" THEN "B" ELSE "none"

\* `cls not in cls._instances`
NoInstance == 0

\* a call of SingletonMeta.__call__ in progress: the class and the line
Frame(c) == [cls |-> c, pc |-> "enter", called |-> FALSE]

\* what a caller got from its last call of a class
NoResult == [cls |-> "none", outcome |-> "none", obj |-> NoInstance]

\* _instances = {}, _lock = Lock(), no call in progress
NoSingletons ==
  /\ instances = [c \in SingletonClasses |-> NoInstance]
  /\ lock = 0
  /\ calls = [t \in ThreadIds |-> <<>>]
  /\ made = [runs |-> [c \in SingletonClasses |-> 0],
             stored |-> [c \in SingletonClasses |-> {}],
             objects |-> 0, raised |-> 0]
  /\ got = [t \in ThreadIds |-> NoResult]

----------------------------------------------------------------------------
(* Operations                                                              *)

\* Setting(name, default=...), IntSetting(...), FloatSetting(...)
\* ListSetting(name, item_callable=..., sep=..., max_split=..., default=...)
Construct(i, cls, name, default, item_callable, sep, max_split) ==
  /\ proxies[i].cls = "none"
  /\ IF PostInitAccepts(default)
     THEN /\ proxies' = [proxies EXCEPT
                ![i] = Proxy(cls, name, default, item_callable, sep, max_split)]
          /\ last' = [Nothing EXCEPT !.op = "construct", !.p = i, !.first = TRUE,
                                     !.raw = default]
     ELSE /\ proxies' = proxies
          /\ last' = [Nothing EXCEPT !.op = "construct", !.p = i, !.first = TRUE,
                                     !.outcome = "TypeError", !.raw = default]
  /\ UNCHANGED <<env, heap, threads, runs>>
  /\ UNCHANGED singletonVars

ConstructAny(i) ==
  \E cls \in Classes, name \in Keys, default \in GoodFallbacks \cup BadFallbacks :
    IF cls = "ListSetting"
    THEN \E f \in Callables, sep \in Seps, m \in MaxSplits :
           Construct(i, cls, name, default, f, sep, m)
    ELSE Construct(i, cls, name, default, "None", << " " >>, -1)

\* proxy.value (also __get__, which returns self.value)
Access(i) ==
  /\ proxies[i].cls # "none"
  /\ \E r \in {GetValue(proxies[i], env, heap)} :
         /\ proxies' = [proxies EXCEPT ![i] = Cache(proxies[i], r)]
         /\ heap' = r.heap
         /\ last' = Observed("value", i, proxies[i], r)
  /\ UNCHANGED <<env, threads, runs>>
  /\ UNCHANGED singletonVars

\* os.environ[k] = t, by the program around the proxies
SetEnv(k, t) ==
  /\ env' = EnvSet(env, k, t)
  /\ env' # env
  /\ last' = [Nothing EXCEPT !.op = "setenv"]
  /\ UNCHANGED <<proxies, heap, threads, runs>>
  /\ UNCHANGED singletonVars

\* del os.environ[k]
DelEnv(k) ==
  /\ k \in DOMAIN env
  /\ env' = EnvDel(env, k)
  /\ last' = [Nothing EXCEPT !.op = "delenv"]
  /\ UNCHANGED <<proxies, heap, threads, runs>>
  /\ UNCHANGED singletonVars

----------------------------------------------------------------------------
(* Specification: construction, value access and a changing environment    *)

\* a thread's place in its call on the proxy, the call, and the list it holds
Idle == [t \in ThreadIds |-> [pc |-> "idle", op |-> "none", ref |-> 0]]

Init ==
  /\ env = EmptyEnv
  /\ proxies = [i \in ProxyIds |-> NoProxy]
  /\ heap = <<>>
  /\ last = Nothing
  /\ threads = Idle
  /\ runs = 0
  /\ NoSingletons

Next ==
  \/ ConstructAny(1)
  \/ Access(1)
  \/ \E k \in Keys, t \in TextPool : SetEnv(k, t)
  \/ \E k \in Keys : DelEnv(k)

Spec == Init /\ [][Next]_vars

----------------------------------------------------------------------------
(* Properties of construction and resolution                               *)

\* the text a first access has to resolve from: the store's entry, else the
\* fallback
HasSource(p) == p.name \in DOMAIN env \/ p.default # MISSING
SourceText(p) == IF p.name \in DOMAIN env THEN env[p.name] ELSE p.default.s

FirstAccess == last.op = "value" /\ last.first

\* C1: a first value access uses the store's text when the key is present
\* (also when a fallback was supplied), else the supplied fallback, else
\* fails with KeyError naming the key and returns nothing
C1_FirstAccessRule ==
  FirstAccess =>
    LET p == proxies[last.p]
    IN  IF HasSource(p)
        THEN /\ last.raw = StrVal(SourceText(p))
             /\ last.outcome \in {"ok", "ValueError"}
             /\ last.outcome = "ok" => p.resolved /\ p.value = last.val
             /\ p.cls = "Setting" => last.outcome = "ok" /\ last.val = last.raw
        ELSE /\ last.outcome = "KeyError"
             /\ last.msg.key = p.name
             /\ last.val = NoVal
             /\ ~p.resolved

\* a first access with a fallback supplied and the key in the store took the
\* store's text
C1_Witness ==
  /\ FirstAccess
  /\ last.outcome = "ok"
  /\ proxies[last.p].default # MISSING
  /\ proxies[last.p].name \in DOMAIN env
  /\ last.raw # proxies[last.p].default

\* C2: an access after resolution returns the cached result without
\* consulting the store, and a resolving access consults it at most once
C2_StoreConsultedOnce ==
  last.op = "value" =>
    /\ last.reads <= 1
    /\ ~last.first => last.reads = 0 /\ last.val = proxies[last.p].value

\* C3: RESOLVED is entered only by a successful first access and never left;
\* a failed evaluation caches nothing; an access after a failure resolves
\* from the store as it is then; no other step resolves
C3_StateMachine ==
  [][ /\ \A i \in ProxyIds :
           /\ proxies[i].resolved =>
                proxies'[i].resolved /\ proxies'[i].value = proxies[i].value
           /\ (proxies[i].cls # "none" /\ ~proxies[i].resolved /\ proxies'[i].resolved) =>
                /\ last'.op = "value" /\ last'.p = i
                /\ last'.first /\ last'.outcome = "ok"
      /\ (last'.op = "value" /\ last'.outcome # "ok") =>
           /\ ~proxies'[last'.p].resolved
           /\ proxies'[last'.p].value = NoVal
      /\ (last'.op = "value" /\ last'.first /\ proxies[last'.p].failed
            /\ last'.outcome = "ok") =>
           /\ HasSource(proxies[last'.p])
           /\ last'.raw = StrVal(SourceText(proxies[last'.p]))
           /\ proxies'[last'.p].value = last'.val
      /\ last'.op # "value" => last'.reads = 0
    ]_vars

\* an instance whose evaluation failed before has now resolved to an entry
\* the store did not hold at construction
C3_Witness ==
  /\ FirstAccess
  /\ last.outcome = "ok"
  /\ proxies[last.p].failed
  /\ proxies[last.p].resolved
  /\ proxies[last.p].name \in DOMAIN env

\* the pool's texts that int() and float() reject
NotAnInt == { <<"2", ".", "5">>, <<"x", " ", "y">>, <<"n", "o">> }
NotAFloat == { <<"x", " ", "y">>, <<"n", "o">> }

Unparsable(p) ==
  /\ p.cls \in NumericClasses
  /\ HasSource(p)
  /\ SourceText(p) \in (IF p.cls = "IntSetting" THEN NotAnInt ELSE NotAFloat)

\* C4: a numeric proxy whose raw text is not a literal of its kind fails at
\* first access with ValueError, the message holding the key and the raw
\* text, and yields no value
C4_ConversionError ==
  (FirstAccess /\ Unparsable(proxies[last.p])) =>
    /\ last.outcome = "ValueError"
    /\ last.msg = [key |-> proxies[last.p].name,
                   text |-> SourceText(proxies[last.p])]
    /\ last.val = NoVal
    /\ ~proxies[last.p].resolved

\* an integer proxy has met text that float() would accept and int() does not
C4_Witness ==
  /\ FirstAccess
  /\ proxies[last.p].cls = "IntSetting"
  /\ HasSource(proxies[last.p])
  /\ SourceText(proxies[last.p]) = <<"2", ".", "5">>
  /\ last.outcome = "ValueError"

\* C5: construction fails with TypeError exactly when the supplied fallback
\* is neither text nor MISSING; it reads no store and leaves the instance
\* unresolved
C5_ConstructChecksFallback ==
  last.op = "construct" =>
    /\ last.reads = 0
    /\ last.outcome = (IF last.raw \in BadFallbacks THEN "TypeError" ELSE "ok")
    /\ last.outcome = "TypeError" => proxies[last.p] = NoProxy
    /\ last.outcome = "ok" =>
         /\ proxies[last.p].cls \in Classes
         /\ proxies[last.p].default = last.raw
         /\ ~proxies[last.p].resolved
         /\ proxies[last.p].value = NoVal

\* a construction with a non-text fallback was refused
C5_Witness ==
  /\ last.op = "construct"
  /\ last.raw = NoneVal
  /\ last.outcome = "TypeError"
  /\ proxies[last.p] = NoProxy

----------------------------------------------------------------------------
(* Specification: the list parse applied to every short text               *)

SplitAlphabet == {"a", " ", ","}
SplitTexts == UNION { [1..n -> SplitAlphabet] : n \in 0..MaxLen }
SplitSeps == { <<",">>, <<" ">>, <<",", " ">>, <<"a", "a">>, <<>> }
SplitCounts == {-1, 0, 1, 2}

InitSplit ==
  /\ \E raw \in SplitTexts : env = [k \in {"A"} |-> raw]
  /\ \E f \in Callables, sep \in SplitSeps, m \in SplitCounts :
       proxies = [i \in ProxyIds |->
                    IF i = 1 THEN Proxy("ListSetting", "A", MISSING, f, sep, m)
                    ELSE NoProxy]
  /\ heap = <<>>
  /\ last = Nothing
  /\ threads = Idle
  /\ runs = 0
  /\ NoSingletons

NextSplit == Access(1)

SpecSplit == InitSplit /\ [][NextSplit]_vars

\* the places where sep occurs in s
Occurrences(s, sep) ==
  { i \in 1..(Len(s) - Len(sep) + 1) : SubSeq(s, i, i + Len(sep) - 1) = sep }

\* cuts is what is cut when sep is taken from the left at most m times: no
\* two cuts overlap, and an occurrence that is not cut lies inside an earlier
\* cut or after the last of m cuts
LeftCuts(cuts, s, sep, m) ==
  /\ cuts \subseteq Occurrences(s, sep)
  /\ m >= 0 => Cardinality(cuts) <= m
  /\ \A c, d \in cuts : c < d => c + Len(sep) <= d
  /\ \A o \in Occurrences(s, sep) \ cuts :
       \/ \E c \in cuts : c < o /\ o < c + Len(sep)
       \/ m >= 0 /\ Cardinality(cuts) = m /\ \A c \in cuts : c < o

\* the k-th cut, counted from the left
NthCut(cuts, k) == CHOOSE c \in cuts : Cardinality({d \in cuts : d < c}) = k - 1

\* the k-th piece of s between the cuts
Piece(s, sep, cuts, k) ==
  SubSeq(s,
         IF k = 1 THEN 1 ELSE NthCut(cuts, k - 1) + Len(sep),
         IF k = Cardinality(cuts) + 1 THEN Len(s) ELSE NthCut(cuts, k) - 1)

\* t is s without its leading and trailing whitespace
IsTrimOf(t, s) ==
  \E i \in 1..(Len(s) + 1), j \in 0..Len(s) :
    /\ t = SubSeq(s, i, j)
    /\ \A k \in 1..(i - 1) : IsSpace(s[k])
    /\ \A k \in (j + 1)..Len(s) : IsSpace(s[k])
    /\ t # <<>> => ~IsSpace(t[1]) /\ ~IsSpace(t[Len(t)])

\* every item of out is the conversion of the trimmed piece at its place
IsParseOf(out, s, sep, m, f) ==
  \E cuts \in SUBSET Occurrences(s, sep) :
    /\ LeftCuts(cuts, s, sep, m)
    /\ Len(out) = Cardinality(cuts) + 1
    /\ \A k \in 1..Len(out) :
         \E i \in 1..(Len(s) + 1), j \in 0..Len(s) :
           /\ IsTrimOf(SubSeq(s, i, j), Piece(s, sep, cuts, k))
           /\ out[k] = ApplyCallable(f, SubSeq(s, i, j))

ListResolved ==
  /\ FirstAccess
  /\ last.outcome = "ok"
  /\ proxies[last.p].cls = "ListSetting"

\* C6: the resolved value of a sequence proxy is the raw text split on the
\* separator from the left at most max_split times, each piece trimmed and
\* then converted, in order
C6_SplitTrimConvert ==
  ListResolved =>
    IsParseOf(heap[last.val.ref], last.raw.s, proxies[last.p].sep,
              proxies[last.p].max_split, proxies[last.p].item_callable)

\* " a,a," cut once at the first comma: the first piece is trimmed and
\* converted, the rest keeps its commas
C6_Witness ==
  /\ ListResolved
  /\ last.raw.s = <<" ", "a", ",">>
  /\ proxies[last.p].sep = <<",">>
  /\ proxies[last.p].max_split = 1
  /\ proxies[last.p].item_callable = "upper"
  /\ heap[last.val.ref] = << <<"A">>, <<>> >>

----------------------------------------------------------------------------
(* Comparisons of numeric proxies                                          *)

\* a < b and a <= b on numbers n/d
NumLt(a, b) == a.n * b.d < b.n * a.d
NumLe(a, b) == a.n * b.d <= b.n * a.d
NumEq(a, b) == a.n * b.d = b.n * a.d

\* a right-hand operand: the instance j, or the plain number v
ProxyOperand(j) == [isProxy |-> TRUE, j |-> j, v |-> NoVal]
PlainOperand(v) == [isProxy |-> FALSE, j |-> 0, v |-> v]

\* what a comparison gives back, and the instances as it leaves them
Compared(ps, outcome, res, reads) ==
  [ps |-> ps, outcome |-> outcome, res |-> res, reads |-> reads]

\* IntSetting.__lt__ / __le__ and FloatSetting.__lt__ / __le__:
\* self.value, then other.value or other itself
MethodLess(ps, i, other, strict) ==
  LET r1 == GetValue(ps[i], env, heap)
      ps1 == [ps EXCEPT ![i] = Cache(ps[i], r1)]
  IN  IF r1.outcome # "ok" THEN Compared(ps1, r1.outcome, FALSE, r1.reads)
      ELSE IF other.isProxy
      THEN LET r2 == GetValue(ps1[other.j], env, heap)
               ps2 == [ps1 EXCEPT ![other.j] = Cache(ps1[other.j], r2)]
           IN  IF r2.outcome # "ok"
               THEN Compared(ps2, r2.outcome, FALSE, r1.reads + r2.reads)
               ELSE Compared(ps2, "ok",
                             IF strict THEN NumLt(r1.val, r2.val)
                             ELSE NumLe(r1.val, r2.val),
                             r1.reads + r2.reads)
      ELSE Compared(ps1, "ok",
                    IF strict THEN NumLt(r1.val, other.v)
                    ELSE NumLe(r1.val, other.v),
                    r1.reads)

\* the __eq__ that @dataclass generates: the fields of two instances of one
\* class; NotImplemented otherwise, and then Python compares identities
DataclassEq(ps, i, other) ==
  IF other.isProxy /\ ps[other.j].cls = ps[i].cls
  THEN Compared(ps, "ok",
                /\ ps[i].name = ps[other.j].name
                /\ ps[i].default = ps[other.j].default, 0)
  ELSE Compared(ps, "ok", FALSE, 0)

\* p > r and p >= r: the classes define no __gt__ / __ge__, so Python calls
\* the reflected r < p, r <= p; a plain number knows no proxy: TypeError
ReflectedLess(ps, i, other, strict) ==
  IF other.isProxy
  THEN MethodLess(ps, other.j, ProxyOperand(i), strict)
  ELSE Compared(ps, "TypeError", FALSE, 0)

CmpOps == {"lt", "le", "gt", "ge", "eq"}

\* p < r, p <= r, p > r, p >= r, p == r
Dispatch(ps, op, i, other) ==
  CASE op = "lt" -> MethodLess(ps, i, other, TRUE)
    [] op = "le" -> MethodLess(ps, i, other, FALSE)
    [] op = "gt" -> ReflectedLess(ps, i, other, TRUE)
    [] op = "ge" -> ReflectedLess(ps, i, other, FALSE)
    [] op = "eq" -> DataclassEq(ps, i, other)

Compare(op, i, other) ==
  /\ proxies[i].cls \in NumericClasses
  /\ other.isProxy => proxies[other.j].cls \in NumericClasses
  /\ \E c \in {Dispatch(proxies, op, i, other)} :
         /\ proxies' = c.ps
         /\ last' = [Nothing EXCEPT !.op = op, !.p = i, !.q = other.j,
                                    !.arg = other.v, !.outcome = c.outcome,
                                    !.res = c.res, !.reads = c.reads,
                                    !.first = ~proxies[i].resolved]
  /\ UNCHANGED <<env, heap, threads, runs>>
  /\ UNCHANGED singletonVars

\* plain numbers a caller may compare with
PlainNumbers == { IntVal(7), FloatVal(25, 10) }
NumberTexts == { <<"7">>, <<" ", "4">>, <<"2", ".", "5">> }

InitCompare ==
  /\ \E x, y \in NumberTexts : env = [k \in Keys |-> IF k = "A" THEN x ELSE y]
  /\ \E c1, c2 \in NumericClasses, n2 \in Keys :
       proxies = [i \in ProxyIds |->
                    IF i = 1 THEN Proxy(c1, "A", MISSING, "None", << " " >>, -1)
                    ELSE Proxy(c2, n2, MISSING, "None", << " " >>, -1)]
  /\ heap = <<>>
  /\ last = Nothing
  /\ threads = Idle
  /\ runs = 0
  /\ NoSingletons

NextCompare ==
  \/ \E op \in CmpOps, j \in ProxyIds : Compare(op, 1, ProxyOperand(j))
  \/ \E op \in CmpOps, v \in PlainNumbers : Compare(op, 1, PlainOperand(v))
  \/ \E i \in ProxyIds : Access(i)

SpecCompare == InitCompare /\ [][NextCompare]_vars

\* the comparison op on the numbers a and b
OnNumbers(op, a, b) ==
  CASE op = "lt" -> NumLt(a, b)
    [] op = "le" -> NumLe(a, b)
    [] op = "gt" -> NumLt(b, a)
    [] op = "ge" -> NumLe(b, a)
    [] op = "eq" -> NumEq(a, b)

\* the number a right-hand operand stands for
OperandValue == IF last.q # 0 THEN proxies[last.q].value ELSE last.arg

\* C7: a comparison of a resolved numeric proxy with a plain number or a
\* resolved numeric proxy returns the comparison of the resolved values
C7_CompareByValue ==
  ( /\ last.op \in CmpOps
    /\ proxies[last.p].resolved
    /\ last.q # 0 => proxies[last.q].resolved ) =>
      /\ last.outcome = "ok"
      /\ last.res = OnNumbers(last.op, proxies[last.p].value, OperandValue)

----------------------------------------------------------------------------
(* Python's list operations, on indices counted from 0                     *)

Max(x, y) == IF x > y THEN x ELSE y
Min(x, y) == IF x < y THEN x ELSE y

\* a negative index counts from the end
NormIndex(l, idx) == IF idx < 0 THEN idx + Len(l) ELSE idx
InRange(l, idx) == NormIndex(l, idx) >= 0 /\ NormIndex(l, idx) < Len(l)

\* a slice bound or an insert position is clamped into 0..len
ClampIndex(l, idx) == IF idx < 0 THEN Max(idx + Len(l), 0) ELSE Min(idx, Len(l))
SliceStart(l, a) == ClampIndex(l, a)
SliceStop(l, a, b) == Max(ClampIndex(l, b), SliceStart(l, a))

ListGet(l, idx) == l[NormIndex(l, idx) + 1]
ListSet(l, idx, v) == [l EXCEPT ![NormIndex(l, idx) + 1] = v]
ListDel(l, idx) ==
  SubSeq(l, 1, NormIndex(l, idx)) \o SubSeq(l, NormIndex(l, idx) + 2, Len(l))
ListInsert(l, idx, v) ==
  SubSeq(l, 1, ClampIndex(l, idx)) \o <<v>> \o SubSeq(l, ClampIndex(l, idx) + 1, Len(l))
ListSlice(l, a, b) == SubSeq(l, SliceStart(l, a) + 1, SliceStop(l, a, b))
ListSetSlice(l, a, b, vs) ==
  SubSeq(l, 1, SliceStart(l, a)) \o vs \o SubSeq(l, SliceStop(l, a, b) + 1, Len(l))

Done(l, v) == [outcome |-> "ok", l |-> l, val |-> v]
IndexError(l) == [outcome |-> "IndexError", l |-> l, val |-> NoVal]

EditOps == {"setitem", "setslice", "delitem", "delslice", "insert"}
ReadOps == {"len", "bool", "getitem"}

\* what the operation does to the list self.value and what it returns:
\* __setitem__, __delitem__, insert, __len__, __bool__, __getitem__(int)
ApplyListOp(op, l, a, b, items) ==
  CASE op = "setitem" ->
         IF InRange(l, a) THEN Done(ListSet(l, a, items[1]), NoneVal) ELSE IndexError(l)
    [] op = "setslice" -> Done(ListSetSlice(l, a, b, items), NoneVal)
    [] op = "delitem" ->
         IF InRange(l, a) THEN Done(ListDel(l, a), NoneVal) ELSE IndexError(l)
    [] op = "delslice" -> Done(ListSetSlice(l, a, b, <<>>), NoneVal)
    [] op = "insert" -> Done(ListInsert(l, a, items[1]), NoneVal)
    [] op = "len" -> Done(l, IntVal(Len(l)))
    [] op = "bool" -> Done(l, IntVal(IF Len(l) > 0 THEN 1 ELSE 0))
    [] op = "getitem" ->
         IF InRange(l, a) THEN Done(l, StrVal(ListGet(l, a))) ELSE IndexError(l)

\* a slice whose list is the original's own list object
SliceAlias(h, ref, a, b) == [heap |-> h, ref |-> ref]

\* self.value[index] for a slice: a new list object holding the selection
SliceObject(h, ref, a, b) ==
  [heap |-> Append(h, ListSlice(h[ref], a, b)), ref |-> Len(h) + 1]

\* an operation of the proxy on self.value
ListOp(op, i, a, b, items) ==
  /\ proxies[i].cls = "ListSetting"
  /\ \E r \in {GetValue(proxies[i], env, heap)} :
       /\ proxies' = [proxies EXCEPT ![i] = Cache(proxies[i], r)]
       /\ IF r.outcome # "ok"
          THEN /\ heap' = heap
               /\ last' = [Observed(op, i, proxies[i], r) EXCEPT
                             !.a = a, !.b = b, !.items = items]
          ELSE \E x \in {ApplyListOp(op, r.heap[r.val.ref], a, b, items)} :
                 /\ Len(x.l) > Len(r.heap[r.val.ref]) => Len(x.l) <= MaxListLen
                 /\ heap' = [r.heap EXCEPT ![r.val.ref] = x.l]
                 /\ last' = [Observed(op, i, proxies[i], r) EXCEPT
                               !.outcome = x.outcome, !.val = x.val,
                               !.pre = r.heap[r.val.ref],
                               !.a = a, !.b = b, !.items = items]
  /\ UNCHANGED <<env, threads, runs>>
  /\ UNCHANGED singletonVars

\* ListSetting.__getitem__(slice): a new instance j of the same
\* configuration whose `value` is set to the sliced list
GetItemSlice(i, j, a, b) ==
  /\ proxies[i].cls = "ListSetting"
  /\ proxies[j].cls = "none"
  /\ \E r \in {GetValue(proxies[i], env, heap)} :
       IF r.outcome # "ok"
       THEN /\ proxies' = [proxies EXCEPT ![i] = Cache(proxies[i], r)]
            /\ heap' = heap
            /\ last' = [Observed("slice", i, proxies[i], r) EXCEPT !.a = a, !.b = b]
       ELSE \E o \in {SliceObject(r.heap, r.val.ref, a, b)} :
              /\ proxies' = [proxies EXCEPT
                   ![i] = Cache(proxies[i], r),
                   ![j] = [Proxy(proxies[i].cls, proxies[i].name, proxies[i].default,
                                 proxies[i].item_callable, proxies[i].sep,
                                 proxies[i].max_split)
                             EXCEPT !.resolved = TRUE, !.value = ListVal(o.ref)]]
              /\ heap' = o.heap
              /\ last' = [Observed("slice", i, proxies[i], r) EXCEPT
                            !.q = j, !.pre = r.heap[r.val.ref], !.a = a, !.b = b]
  /\ UNCHANGED <<env, threads, runs>>
  /\ UNCHANGED singletonVars

----------------------------------------------------------------------------
(* Specification: one list proxy, its slice, and a changing environment    *)

ListTexts == { <<"a", " ", "b">>, <<"b">> }
Item == <<"z">>

InitList ==
  /\ env = [k \in {"A"} |-> <<"a", " ", "b">>]
  /\ \E c \in { <<"None", MISSING>>, <<"upper", StrVal(<<"b">>)>> } :
       proxies = [i \in ProxyIds |->
                    IF i = 1 THEN Proxy("ListSetting", "A", c[2], c[1], << " " >>, -1)
                    ELSE NoProxy]
  /\ heap = <<>>
  /\ last = Nothing
  /\ threads = Idle
  /\ runs = 0
  /\ NoSingletons

NextList ==
  \/ \E i \in ProxyIds : Access(i)
  \/ \E i \in ProxyIds, a \in {0, -1, 2} : ListOp("setitem", i, a, 0, <<Item>>)
  \/ \E i \in ProxyIds, a \in {0, 2} : ListOp("delitem", i, a, 0, <<>>)
  \/ \E i \in ProxyIds, a \in {0, 5} : ListOp("insert", i, a, 0, <<Item>>)
  \/ \E i \in ProxyIds, vs \in {<<>>, <<Item, Item>>} : ListOp("setslice", i, 0, 1, vs)
  \/ \E i \in ProxyIds : ListOp("delslice", i, 1, 2, <<>>)
  \/ \E i \in ProxyIds, op \in {"len", "bool"} : ListOp(op, i, 0, 0, <<>>)
  \/ \E i \in ProxyIds, a \in {0, -1} : ListOp("getitem", i, a, 0, <<>>)
  \/ \E a \in {0, 1}, b \in {1, 2} : GetItemSlice(1, 2, a, b)
  \/ \E t \in ListTexts : SetEnv("A", t)
  \/ DelEnv("A")

SpecList == InitList /\ [][NextList]_vars

----------------------------------------------------------------------------
(* Properties of the list operations                                       *)

\* the place, counted from 1, that index a names in a list of length n
Place(n, a) == IF a < 0 THEN a + n + 1 ELSE a + 1

\* post is pre after the edit op(a, b, items), said item by item
EditPost(op, pre, post, a, b, items) ==
  CASE op = "setitem" ->
         /\ Len(post) = Len(pre)
         /\ \A m \in 1..Len(pre) :
              post[m] = IF m = Place(Len(pre), a) THEN items[1] ELSE pre[m]
    [] op = "delitem" ->
         /\ Len(post) = Len(pre) - 1
         /\ \A m \in 1..Len(post) :
              post[m] = IF m < Place(Len(pre), a) THEN pre[m] ELSE pre[m + 1]
    [] op = "insert" ->
         LET k == IF a >= Len(pre) THEN Len(pre) + 1 ELSE Max(Place(Len(pre), a), 1)
         IN  /\ Len(post) = Len(pre) + 1
             /\ \A m \in 1..Len(post) :
                  post[m] = IF m < k THEN pre[m]
                            ELSE IF m = k THEN items[1] ELSE pre[m - 1]
    [] op \in {"setslice", "delslice"} ->
         LET lo == Min(a, Len(pre))
             hi == Max(Min(b, Len(pre)), lo)
             new == IF op = "delslice" THEN <<>> ELSE items
         IN  /\ Len(post) = Len(pre) - (hi - lo) + Len(new)
             /\ \A m \in 1..Len(post) :
                  post[m] = IF m <= lo THEN pre[m]
                            ELSE IF m <= lo + Len(new) THEN new[m - lo]
                            ELSE pre[m - Len(new) + (hi - lo)]

\* what a read of the list l gives back
ReadResult(op, l, a, outcome, val) ==
  CASE op = "len" -> outcome = "ok" /\ val = IntVal(Len(l))
    [] op = "bool" -> outcome = "ok" /\ val = IntVal(IF l = <<>> THEN 0 ELSE 1)
    [] op = "getitem" ->
         IF Place(Len(l), a) \in 1..Len(l)
         THEN outcome = "ok" /\ val = StrVal(l[Place(Len(l), a)])
         ELSE outcome = "IndexError"

\* the list an instance has cached
Cached(h, p) == h[p.value.ref]

\* C8: an edit through a sequence proxy leaves the store unchanged and, once
\* the proxy is resolved, reads no store and works on the one cached list;
\* every later read sees that list as the edits left it
C8_EditsStayInCache ==
  [][ /\ last'.op \in EditOps =>
           /\ env' = env
           /\ proxies[last'.p].resolved =>
                /\ last'.reads = 0
                /\ proxies'[last'.p].value = proxies[last'.p].value
                /\ last'.pre = Cached(heap, proxies[last'.p])
           /\ last'.outcome = "ok" =>
                EditPost(last'.op, last'.pre, Cached(heap', proxies'[last'.p]),
                         last'.a, last'.b, last'.items)
           /\ last'.outcome = "IndexError" =>
                Cached(heap', proxies'[last'.p]) = last'.pre
      /\ (last'.op \in ReadOps /\ proxies[last'.p].resolved) =>
           /\ env' = env
           /\ last'.reads = 0
           /\ proxies'[last'.p].value = proxies[last'.p].value
           /\ Cached(heap', proxies'[last'.p]) = Cached(heap, proxies[last'.p])
           /\ ReadResult(last'.op, Cached(heap, proxies[last'.p]), last'.a,
                         last'.outcome, last'.val)
    ]_vars

\* a read returned an item that only an edit could have put there, with the
\* store still holding the text the list was parsed from
C8_Witness ==
  /\ last.op = "getitem"
  /\ last.p = 1
  /\ last.val = StrVal(Item)
  /\ last.reads = 0
  /\ "A" \in DOMAIN env /\ env["A"] = <<"a", " ", "b">>
  /\ Len(Cached(heap, proxies[1])) = 1

SameConfiguration(p, q) ==
  /\ p.cls = q.cls
  /\ p.name = q.name
  /\ p.default = q.default
  /\ p.item_callable = q.item_callable
  /\ p.sep = q.sep
  /\ p.max_split = q.max_split

\* out holds the items of pre at the places a <= k < b, counted from 0
IsSelection(out, pre, a, b) ==
  /\ Len(out) = Max(Min(b, Len(pre)) - Min(a, Len(pre)), 0)
  /\ \A k \in 1..Len(out) : out[k] = pre[Min(a, Len(pre)) + k]

ResolvedList(p) == p.cls = "ListSetting" /\ p.resolved

\* C9: a slice is a new instance of the same configuration, already
\* resolved to the selected items in a list of its own; no operation on a
\* resolved instance reads the store, and none changes another instance's
\* list
C9_SliceIsResolvedCopy ==
  [][ /\ (last'.op = "slice" /\ last'.outcome = "ok") =>
           /\ proxies[last'.q].cls = "none"
           /\ SameConfiguration(proxies'[last'.q], proxies'[last'.p])
           /\ proxies'[last'.q].resolved
           /\ proxies'[last'.q].value.ref # proxies'[last'.p].value.ref
           /\ last'.pre = Cached(heap', proxies'[last'.p])
           /\ IsSelection(Cached(heap', proxies'[last'.q]), last'.pre,
                          last'.a, last'.b)
      /\ \A y \in ProxyIds :
           ResolvedList(proxies[y]) =>
             /\ proxies'[y].resolved /\ proxies'[y].value = proxies[y].value
             /\ last'.p = y => last'.reads = 0
             /\ (last'.p # y \/ last'.op \notin EditOps) =>
                  Cached(heap', proxies'[y]) = Cached(heap, proxies[y])
    ]_vars

\* the key is gone from the store, the slice was edited and read, and the
\* original still holds what it was parsed to
C9_Witness ==
  /\ last.op = "getitem"
  /\ last.p = 2
  /\ last.val = StrVal(Item)
  /\ last.reads = 0
  /\ "A" \notin DOMAIN env
  /\ ResolvedList(proxies[1])
  /\ Cached(heap, proxies[1]) = << <<"a">>, <<"b">> >>

----------------------------------------------------------------------------
(* Specification: two threads calling one unresolved list proxy.           *)
(* cached_property takes no lock: the look into the instance's __dict__,   *)
(* the call of the function and the store of its result are separate steps *)

Self == 1

\* the thread calls proxy.value or proxy.insert(0, Item)
Begin(t, op) ==
  /\ threads[t].pc = "idle"
  /\ threads' = [threads EXCEPT ![t].pc = "get", ![t].op = op]
  /\ UNCHANGED <<env, proxies, heap, last, runs>>
  /\ UNCHANGED singletonVars

\* self.value, step 1: the entry of the instance's __dict__, if there is one
Lookup(t) ==
  /\ threads[t].pc = "get"
  /\ threads' = [threads EXCEPT
        ![t].pc = IF proxies[Self].resolved THEN "use" ELSE "compute",
        ![t].ref = IF proxies[Self].resolved THEN proxies[Self].value.ref ELSE 0]
  /\ UNCHANGED <<env, proxies, heap, last, runs>>
  /\ UNCHANGED singletonVars

\* self.value, step 2: the call of ListSetting.value
Compute(t) ==
  /\ threads[t].pc = "compute"
  /\ \E r \in {ComputeValue(proxies[Self], env, heap)} :
       /\ heap' = r.heap
       /\ IF r.outcome = "ok"
          THEN /\ threads' = [threads EXCEPT ![t].pc = "store", ![t].ref = r.val.ref]
               /\ proxies' = proxies
          ELSE /\ threads' = [threads EXCEPT ![t].pc = "done"]
               /\ proxies' = [proxies EXCEPT ![Self] = Cache(proxies[Self], r)]
  /\ runs' = runs + 1
  /\ UNCHANGED <<env, last>>
  /\ UNCHANGED singletonVars

\* self.value, step 3: the result goes into the instance's __dict__
Store(t) ==
  /\ threads[t].pc = "store"
  /\ proxies' = [proxies EXCEPT
        ![Self] = Cache(proxies[Self],
                        Return(ListVal(threads[t].ref), NoVal, 0, heap))]
  /\ threads' = [threads EXCEPT ![t].pc = "use"]
  /\ UNCHANGED <<env, heap, last, runs>>
  /\ UNCHANGED singletonVars

\* the call returns the list, or inserts into the list it was given
Use(t) ==
  /\ threads[t].pc = "use"
  /\ heap' = IF threads[t].op = "insert"
             THEN [heap EXCEPT ![threads[t].ref] = ListInsert(@, 0, Item)]
             ELSE heap
  /\ threads' = [threads EXCEPT ![t].pc = "done"]
  /\ UNCHANGED <<env, proxies, last, runs>>
  /\ UNCHANGED singletonVars

InitThreads ==
  /\ env = [k \in {"A"} |-> <<"a", " ", "b">>]
  /\ proxies = [i \in ProxyIds |->
                  IF i = Self
                  THEN Proxy("ListSetting", "A", MISSING, "None", << " " >>, -1)
                  ELSE NoProxy]
  /\ heap = <<>>
  /\ last = Nothing
  /\ threads = Idle
  /\ runs = 0
  /\ NoSingletons

NextThreads ==
  \/ \E t \in ThreadIds, op \in {"value", "insert"} : Begin(t, op)
  \/ \E t \in ThreadIds : Lookup(t)
  \/ \E t \in ThreadIds : Compute(t)
  \/ \E t \in ThreadIds : Store(t)
  \/ \E t \in ThreadIds : Use(t)
  \/ \E x \in ListTexts : SetEnv("A", x)
  \/ DelEnv("A")

SpecThreads == InitThreads /\ [][NextThreads]_vars

AllDone == \A t \in ThreadIds : threads[t].pc = "done"

\* C10: when two threads have made their first access, ListSetting.value
\* has run at most once, both hold the cached list, and an item a thread
\* inserted through the proxy is in the cached list
C10_OneResolutionNoLostEdit ==
  AllDone =>
    /\ runs <= 1
    /\ \A t \in ThreadIds :
         threads[t].ref # 0 =>
           /\ proxies[Self].resolved
           /\ threads[t].ref = proxies[Self].value.ref
           /\ threads[t].op = "insert" =>
                \E k \in 1..Len(Cached(heap, proxies[Self])) :
                  Cached(heap, proxies[Self])[k] = Item

----------------------------------------------------------------------------
(* SingletonMeta.__call__, line by line, called from several threads       *)

Top(t) == calls[t][Len(calls[t])]
Below(t) == SubSeq(calls[t], 1, Len(calls[t]) - 1)
At(t, pc) == calls[t] # <<>> /\ Top(t).pc = pc
Goto(t, pc) == [calls EXCEPT ![t] = [@ EXCEPT ![Len(@)].pc = pc]]

\* a thread calls the class c
Call(t, c) ==
  /\ calls[t] = <<>>
  /\ calls' = [calls EXCEPT ![t] = <<Frame(c)>>]
  /\ got' = [got EXCEPT ![t] = [NoResult EXCEPT !.cls = c]]
  /\ UNCHANGED <<instances, lock, made>>
  /\ UNCHANGED settingVars

\* Lock.acquire without the wait for the holder
EnterUnlocked(t) ==
  /\ At(t, "enter")
  /\ lock' = t
  /\ calls' = Goto(t, "check")
  /\ UNCHANGED <<instances, made, got>>
  /\ UNCHANGED settingVars

\* with cls._lock: the thread waits until the lock is free and takes it
Enter(t) ==
  /\ At(t, "enter")
  /\ lock = 0
  /\ lock' = t
  /\ calls' = Goto(t, "check")
  /\ UNCHANGED <<instances, made, got>>
  /\ UNCHANGED settingVars

\* if cls not in cls._instances: the constructor starts, or is skipped
CheckInstances(t) ==
  /\ At(t, "check")
  /\ IF instances[Top(t).cls] = NoInstance
     THEN /\ calls' = Goto(t, "init")
          /\ made' = [made EXCEPT !.runs[Top(t).cls] = @ + 1]
     ELSE /\ calls' = Goto(t, "exit")
          /\ made' = made
  /\ UNCHANGED <<instances, lock, got>>
  /\ UNCHANGED settingVars

\* super().__call__: the __init__ of the class calls another singleton class
InitCalls(t) ==
  /\ At(t, "init")
  /\ Initializer(Top(t).cls) # "none"
  /\ ~Top(t).called
  /\ calls' = [calls EXCEPT ![t] = Append(@, Frame(Initializer(Top(t).cls)))]
  /\ UNCHANGED <<instances, lock, made, got>>
  /\ UNCHANGED settingVars

\* cls._instances[cls] = super().__call__(...): a new object is stored
InitReturns(t) ==
  /\ At(t, "init")
  /\ Initializer(Top(t).cls) # "none" => Top(t).called
  /\ instances' = [instances EXCEPT ![Top(t).cls] = made.objects + 1]
  /\ made' = [made EXCEPT !.objects = @ + 1,
                          !.stored[Top(t).cls] = @ \cup {made.objects + 1}]
  /\ calls' = Goto(t, "exit")
  /\ UNCHANGED <<lock, got>>
  /\ UNCHANGED settingVars

\* super().__call__ raises: nothing is assigned
InitRaises(t) ==
  /\ At(t, "init")
  /\ made.raised < MaxRaises
  /\ made' = [made EXCEPT !.raised = @ + 1]
  /\ calls' = Goto(t, "raise")
  /\ UNCHANGED <<instances, lock, got>>
  /\ UNCHANGED settingVars

\* the end of the with block releases the lock; an exception leaves the
\* call, and the __init__ that made the call if there is one
Exit(t) ==
  /\ At(t, "exit") \/ At(t, "raise")
  /\ lock' = 0
  /\ IF At(t, "exit")
     THEN /\ calls' = Goto(t, "return")
          /\ got' = got
     ELSE IF Below(t) = <<>>
          THEN /\ calls' = [calls EXCEPT ![t] = <<>>]
               /\ got' = [got EXCEPT ![t].outcome = "raised"]
          ELSE /\ calls' = [calls EXCEPT
                      ![t] = [Below(t) EXCEPT ![Len(Below(t))].pc = "raise"]]
               /\ got' = got
  /\ UNCHANGED <<instances, made>>
  /\ UNCHANGED settingVars

\* return cls._instances[cls]
ReturnInstance(t) ==
  /\ At(t, "return")
  /\ IF Below(t) = <<>>
     THEN /\ calls' = [calls EXCEPT ![t] = <<>>]
          /\ got' = [got EXCEPT ![t].outcome = "returned",
                                ![t].obj = instances[Top(t).cls]]
     ELSE /\ calls' = [calls EXCEPT
                 ![t] = [Below(t) EXCEPT ![Len(Below(t))].called = TRUE]]
          /\ got' = got
  /\ UNCHANGED <<instances, lock, made>>
  /\ UNCHANGED settingVars

\* the steps of a call that is in progress
Step(t) ==
  \/ CheckInstances(t)
  \/ InitCalls(t)
  \/ InitReturns(t)
  \/ Exit(t)
  \/ ReturnInstance(t)

NextSingleton ==
  \/ \E t \in ThreadIds, c \in SingletonClasses : Call(t, c)
  \/ \E t \in ThreadIds : Enter(t)
  \/ \E t \in ThreadIds : CheckInstances(t)
  \/ \E t \in ThreadIds : InitCalls(t)
  \/ \E t \in ThreadIds : InitReturns(t)
  \/ \E t \in ThreadIds : InitRaises(t)
  \/ \E t \in ThreadIds : Exit(t)
  \/ \E t \in ThreadIds : ReturnInstance(t)

SpecSingleton == Init /\ [][NextSingleton]_vars

\* every thread goes on with its call, and a thread that waits for the lock
\* gets it if the lock is free again and again
FairSingleton ==
  /\ SpecSingleton
  /\ \A t \in ThreadIds : WF_vars(Step(t)) /\ SF_vars(Enter(t))

\* what the calls returned agrees with the table, the table never held two
\* objects for one class, and no object is the instance of two classes
OneInstance ==
  /\ \A c \in SingletonClasses :
       /\ Cardinality(made.stored[c]) <= 1
       /\ instances[c] # NoInstance => made.stored[c] = {instances[c]}
  /\ \A t \in ThreadIds :
       got[t].outcome = "returned" => made.stored[got[t].cls] = {got[t].obj}
  /\ \A c, d \in SingletonClasses :
       c # d => made.stored[c] \cap made.stored[d] = {}

\* C11 as stated: under every interleaving of calls from two threads the
\* constructor of a class runs at most once, at most one instance is ever
\* stored for the class, every call returns it, and distinct classes have
\* distinct instances
C11_ConstructorRunsOnce ==
  /\ \A c \in SingletonClasses : made.runs[c] <= 1
  /\ OneInstance

\* C11, amended: under every interleaving of calls from two threads the
\* constructor of a class runs to completion at most once (a constructor
\* that raised runs again on a later call), at most one instance is ever
\* stored for the class, every call that returns returns it, and distinct
\* classes have distinct instances
C11_OneInstancePerClass ==
  /\ \A c \in SingletonClasses : made.runs[c] <= 1 + made.raised
  /\ OneInstance

\* both threads called B while the other's call was possible, both got the
\* one instance, and C has an instance of its own
C11_Witness ==
  /\ \A t \in ThreadIds :
       got[t] = [cls |-> "B", outcome |-> "returned", obj |-> instances["B"]]
  /\ instances["B"] # NoInstance
  /\ instances["C"] # NoInstance
  /\ instances["C"] # instances["B"]

\* C12: every call of a singleton class returns or raises in the end, also
\* a call of A whose __init__ calls B, and the lock is free when no call is
\* in progress
C12_CallsComplete ==
  /\ \A t \in ThreadIds : (calls[t] # <<>>) ~> (calls[t] = <<>>)
  /\ []((\A t \in ThreadIds : calls[t] = <<>>) => lock = 0)

====
